---- MODULE Spec2Model ----
(***************************************************************************)
(* The Command builder of unshare (src/std_api.rs): a launch descriptor    *)
(* that accumulates the program, its arguments, the environment policy,    *)
(* the working directory and the three stdio overrides.                    *)
(*                                                                         *)
(* OS strings are byte sequences.  A CString is the byte sequence followed *)
(* by the terminating 0 byte.  The environment map (HashMap) is the set of *)
(* its <<key, value>> entries.                                             *)
(***************************************************************************)
EXTENDS Integers, Sequences, FiniteSets, TLC

\* ---------------------------------------------------------------- bounds
\* number of builder calls made on the descriptor after Command::new
MaxCalls == 3
\* number of changes other code makes to the process environment
MaxAmbientOps == 1

\* ------------------------------------------------------------- universes
StrA == <<97>>
StrB == <<98>>
\* "a\0": a string with an embedded NUL byte
StrNul == <<97, 0>>
\* the OS strings a caller passes to the builder
OsStrs == {StrA, StrB, StrNul}
\* the programs a caller passes to Command::new
Programs == {StrA, StrNul}
\* names and values of the process environment (the OS never holds a NUL)
AmbientKeys == {StrA, StrB}
AmbientVals == {StrB}
\* the redirections a caller passes to stdin/stdout/stderr
StdioCfgs == {"inherit", "piped"}
\* the slices a caller passes to args()
Slices == {<<>>, <<StrA, StrB>>, <<StrB, StrA>>, <<StrB, StrNul, StrA>>}

\* Option::None and Option::Some
None == <<>>
Some(x) == <<x>>
\* no Command has been constructed
NoCommand == <<>>
\* the outcome of a conversion that does not return (the call panics);
\* it is no CString, since every CString holds at least its terminator
Panic == <<>>
\* no call has been made yet
NoCall == [op |-> "none", in |-> <<>>, res |-> "returned", rep |-> FALSE,
           old |-> {}]

VARIABLES
    pc,        \* "init": before Command::new; "ready": every call so far
               \* returned; "panicked": a call unwound
    cmd,       \* the Command (NoCommand before construction)
    ambient,   \* the process environment env::vars_os() reads
    reads,     \* number of env::vars_os() calls made by the builder
    supplied,  \* the program handed to Command::new
    passed,    \* the arguments handed to arg/args calls that returned
    ambientOps,\* changes made to the process environment so far
    calls,     \* builder calls made on the descriptor after Command::new
    setSinceClear, \* None until env_clear is called; afterwards Some(the
               \* keys set by env and not removed again since that call)
    last       \* the most recent builder call: its name, its inputs, how
               \* it ended ("returned" or "panicked"), whether it repeats
               \* the call before it, and (env, env_remove) the values the
               \* descriptor's mapping held for the key before the call,
               \* (current_dir, stdin, stdout, stderr) the value the slot
               \* held before the call

vars == <<pc, cmd, ambient, reads, supplied, passed, ambientOps, calls,
          setSinceClear, last>>

\* ------------------------------------------------------ string conversion
HasNul(s) == \E i \in DOMAIN s : s[i] = 0

\* ffi_util::ToCString::to_cstring: the bytes followed by the terminator;
\* a string with an interior NUL has no CString and the call does not return
to_cstring(s) == IF HasNul(s) THEN Panic ELSE Append(s, 0)

\* CString::as_bytes: the string a CString stands for
to_bytes(c) == SubSeq(c, 1, Len(c) - 1)

\* OsStr::to_os_string: an owned copy, no conversion and no failure
to_os_string(s) == s

\* ------------------------------------------------------------------- Vec
push_front(v, x) == <<x>> \o v

\* Vec::push
push(v, x) == Append(v, x)

RECURSIVE extend_reversed(_, _)
extend_reversed(v, xs) ==
    IF xs = <<>> THEN v ELSE extend_reversed(v, Tail(xs)) \o <<Head(xs)>>

\* Vec::extend: the elements are pushed one by one, in iteration order
RECURSIVE extend(_, _)
extend(v, xs) == IF xs = <<>> THEN v ELSE extend(push(v, Head(xs)), Tail(xs))

\* the elements args.iter().map(to_cstring) yields before it ends or panics
RECURSIVE ConvertedPrefix(_)
ConvertedPrefix(s) ==
    IF s = <<>> \/ to_cstring(Head(s)) = Panic
    THEN <<>>
    ELSE <<to_cstring(Head(s))>> \o ConvertedPrefix(Tail(s))

\* -------------------------------------------------------------- HashMap
Keys(m) == {e[1] : e \in m}

\* the values a map holds for a key (at most one)
ValuesOf(m, key) == {e[2] : e \in {x \in m : x[1] = key}}

HashMapInsertIfAbsent(m, key, val) ==
    IF key \in Keys(m) THEN m ELSE m \cup {<<key, val>>}

\* HashMap::insert: the entry of key is replaced, or added
HashMapInsert(m, key, val) == {e \in m : e[1] # key} \cup {<<key, val>>}

HashMapRetainKey(m, key) == {e \in m : e[1] = key}

\* HashMap::remove: the entry of key is dropped, if there is one
HashMapRemove(m, key) == {e \in m : e[1] # key}

\* env::vars_os().collect(): the snapshot of the process environment
vars_os(amb) == amb

\* ------------------------------------------------------------------ Init
Init ==
    /\ pc = "init"
    /\ cmd = NoCommand
    /\ ambient \in {{}, {<<StrA, StrB>>, <<StrB, StrB>>}}
    /\ reads = 0
    /\ supplied = None
    /\ passed = <<>>
    /\ ambientOps = 0
    /\ calls = 0
    /\ setSinceClear = None
    /\ last = NoCall

\* the record of a builder call
Call(op, in, res, old) ==
    [op |-> op, in |-> in, res |-> res,
     rep |-> (last.op = op /\ last.in = in), old |-> old]

\* ------------------------------------------------------------ operations
new_unchecked(program) ==
    /\ pc = "init"
    /\ supplied' = program
    /\ pc' = "ready"
    /\ cmd' = [filename |-> Append(program, 0),
               args     |-> <<Append(program, 0)>>,
               environ  |-> None,
               work_dir |-> None,
               stdin    |-> None,
               stdout   |-> None,
               stderr   |-> None]
    /\ last' = Call("new", <<program>>, "returned", {})
    /\ UNCHANGED <<ambient, reads, passed, ambientOps, calls, setSinceClear>>

new_snapshot(program) ==
    /\ pc = "init"
    /\ supplied' = program
    /\ IF to_cstring(program) = Panic
       THEN /\ pc' = "panicked"
            /\ cmd' = NoCommand
            /\ reads' = reads
            /\ last' = Call("new", <<program>>, "panicked", {})
       ELSE /\ pc' = "ready"
            /\ cmd' = [filename |-> to_cstring(program),
                       args     |-> <<to_cstring(program)>>,
                       environ  |-> Some(vars_os(ambient)),
                       work_dir |-> None,
                       stdin    |-> None,
                       stdout   |-> None,
                       stderr   |-> None]
            /\ reads' = reads + 1
            /\ last' = Call("new", <<program>>, "returned", {})
    /\ UNCHANGED <<ambient, passed, ambientOps, calls, setSinceClear>>

new_empty_env(program) ==
    /\ pc = "init"
    /\ supplied' = program
    /\ IF to_cstring(program) = Panic
       THEN /\ pc' = "panicked"
            /\ cmd' = NoCommand
            /\ last' = Call("new", <<program>>, "panicked", {})
       ELSE /\ pc' = "ready"
            /\ cmd' = [filename |-> to_cstring(program),
                       args     |-> <<to_cstring(program)>>,
                       environ  |-> Some({}),
                       work_dir |-> None,
                       stdin    |-> None,
                       stdout   |-> None,
                       stderr   |-> None]
            /\ last' = Call("new", <<program>>, "returned", {})
    /\ UNCHANGED <<ambient, reads, passed, ambientOps, calls, setSinceClear>>

\* Command::new
new(program) ==
    /\ pc = "init"
    /\ supplied' = program
    /\ IF to_cstring(program) = Panic
       THEN /\ pc' = "panicked"
            /\ cmd' = NoCommand
            /\ last' = Call("new", <<program>>, "panicked", {})
       ELSE /\ pc' = "ready"
            /\ cmd' = [filename |-> to_cstring(program),
                       args     |-> <<to_cstring(program)>>,
                       environ  |-> None,
                       work_dir |-> None,
                       stdin    |-> None,
                       stdout   |-> None,
                       stderr   |-> None]
            /\ last' = Call("new", <<program>>, "returned", {})
    /\ UNCHANGED <<ambient, reads, passed, ambientOps, calls, setSinceClear>>

init_env_map_empty(c, amb) ==
    IF c.environ = None
    THEN [cmd |-> [c EXCEPT !.environ = Some({})], read |-> 1]
    ELSE [cmd |-> c, read |-> 0]

init_env_map_always(c, amb) ==
    [cmd |-> [c EXCEPT !.environ = Some(vars_os(amb))], read |-> 1]

\* Command::init_env_map: the descriptor afterwards, and the number of
\* env::vars_os() calls it made
init_env_map_body(c, amb) ==
    IF c.environ = None
    THEN [cmd |-> [c EXCEPT !.environ = Some(vars_os(amb))], read |-> 1]
    ELSE [cmd |-> c, read |-> 0]

\* Command::init_env_map, called by the caller itself (it is a pub fn)
init_env_map ==
    /\ pc = "ready"
    /\ calls < MaxCalls
    /\ calls' = calls + 1
    /\ cmd' = init_env_map_body(cmd, ambient).cmd
    /\ reads' = reads + init_env_map_body(cmd, ambient).read
    /\ last' = Call("init_env_map", <<>>, "returned", {})
    /\ UNCHANGED <<pc, ambient, supplied, passed, ambientOps, setSinceClear>>

arg_materializing(a) ==
    /\ pc = "ready"
    /\ calls < MaxCalls
    /\ calls' = calls + 1
    /\ IF to_cstring(a) = Panic
       THEN /\ pc' = "panicked"
            /\ UNCHANGED <<cmd, passed, reads>>
            /\ last' = Call("arg", <<a>>, "panicked", {})
       ELSE /\ pc' = pc
            /\ cmd' = [init_env_map_body(cmd, ambient).cmd EXCEPT
                          !.args = push(@, to_cstring(a))]
            /\ reads' = reads + init_env_map_body(cmd, ambient).read
            /\ passed' = Append(passed, a)
            /\ last' = Call("arg", <<a>>, "returned", {})
    /\ UNCHANGED <<ambient, supplied, ambientOps, setSinceClear>>

\* Command::arg, for an argument that converts: the descriptor afterwards
arg_body(c, a) == [c EXCEPT !.args = push(@, to_cstring(a))]

\* Command::arg
arg(a) ==
    /\ pc = "ready"
    /\ calls < MaxCalls
    /\ calls' = calls + 1
    /\ IF to_cstring(a) = Panic
       THEN /\ pc' = "panicked"
            /\ UNCHANGED <<cmd, passed>>
            /\ last' = Call("arg", <<a>>, "panicked", {})
       ELSE /\ pc' = pc
            /\ cmd' = arg_body(cmd, a)
            /\ passed' = Append(passed, a)
            /\ last' = Call("arg", <<a>>, "returned", {})
    /\ UNCHANGED <<ambient, reads, supplied, ambientOps, setSinceClear>>

args_replace(slice) ==
    /\ pc = "ready"
    /\ calls < MaxCalls
    /\ calls' = calls + 1
    /\ cmd' = [cmd EXCEPT !.args = extend(<<@[1]>>, ConvertedPrefix(slice))]
    /\ IF \E i \in DOMAIN slice : to_cstring(slice[i]) = Panic
       THEN /\ pc' = "panicked"
            /\ UNCHANGED passed
            /\ last' = Call("args", <<slice>>, "panicked", {})
       ELSE /\ pc' = pc
            /\ passed' = passed \o slice
            /\ last' = Call("args", <<slice>>, "returned", {})
    /\ UNCHANGED <<ambient, reads, supplied, ambientOps, setSinceClear>>

\* Command::args: a conversion that panics leaves the elements before it
\* pushed
args(slice) ==
    /\ pc = "ready"
    /\ calls < MaxCalls
    /\ calls' = calls + 1
    /\ cmd' = [cmd EXCEPT !.args = extend(@, ConvertedPrefix(slice))]
    /\ IF \E i \in DOMAIN slice : to_cstring(slice[i]) = Panic
       THEN /\ pc' = "panicked"
            /\ UNCHANGED passed
            /\ last' = Call("args", <<slice>>, "panicked", {})
       ELSE /\ pc' = pc
            /\ passed' = passed \o slice
            /\ last' = Call("args", <<slice>>, "returned", {})
    /\ UNCHANGED <<ambient, reads, supplied, ambientOps, setSinceClear>>

\* the mapping of a descriptor whose environment is explicit
Mapping(c) == c.environ[1]

\* the values the descriptor's own mapping holds for a key
OldValues(c, key) ==
    IF c.environ = None THEN {} ELSE ValuesOf(c.environ[1], key)

\* the keys set since env_clear, after env(key, _)
SetKey(key) ==
    IF setSinceClear = None THEN None ELSE Some(setSinceClear[1] \cup {key})

\* the keys set since env_clear, after env_remove(key)
UnsetKey(key) ==
    IF setSinceClear = None THEN None ELSE Some(setSinceClear[1] \ {key})

\* Command::env
env(key, val) ==
    /\ pc = "ready"
    /\ calls < MaxCalls
    /\ calls' = calls + 1
    /\ LET r == init_env_map_body(cmd, ambient) IN
        /\ cmd' = [r.cmd EXCEPT !.environ =
                      Some(HashMapInsert(@[1], to_os_string(key),
                                         to_os_string(val)))]
        /\ reads' = reads + r.read
    /\ setSinceClear' = SetKey(key)
    /\ last' = Call("env", <<key, val>>, "returned", OldValues(cmd, key))
    /\ UNCHANGED <<pc, ambient, supplied, passed, ambientOps>>

\* Command::env_remove: the descriptor afterwards
env_remove_body(c, amb, key) ==
    [init_env_map_body(c, amb).cmd EXCEPT
        !.environ = Some(HashMapRemove(@[1], key))]

env_remove_reset(key) ==
    /\ pc = "ready"
    /\ calls < MaxCalls
    /\ calls' = calls + 1
    /\ cmd' = IF Mapping(env_remove_body(cmd, ambient, key)) = {}
              THEN [cmd EXCEPT !.environ = None]
              ELSE env_remove_body(cmd, ambient, key)
    /\ reads' = reads + init_env_map_body(cmd, ambient).read
    /\ setSinceClear' = UnsetKey(key)
    /\ last' = Call("env_remove", <<key>>, "returned", OldValues(cmd, key))
    /\ UNCHANGED <<pc, ambient, supplied, passed, ambientOps>>

\* Command::env_remove
env_remove(key) ==
    /\ pc = "ready"
    /\ calls < MaxCalls
    /\ calls' = calls + 1
    /\ cmd' = env_remove_body(cmd, ambient, key)
    /\ reads' = reads + init_env_map_body(cmd, ambient).read
    /\ setSinceClear' = UnsetKey(key)
    /\ last' = Call("env_remove", <<key>>, "returned", OldValues(cmd, key))
    /\ UNCHANGED <<pc, ambient, supplied, passed, ambientOps>>

env_clear_snapshot ==
    /\ pc = "ready"
    /\ calls < MaxCalls
    /\ calls' = calls + 1
    /\ LET r == init_env_map_body(cmd, ambient) IN
        /\ cmd' = [r.cmd EXCEPT !.environ = Some({})]
        /\ reads' = reads + r.read
    /\ setSinceClear' = Some({})
    /\ last' = Call("env_clear", <<>>, "returned", {})
    /\ UNCHANGED <<pc, ambient, supplied, passed, ambientOps>>

env_clear_if_explicit(c) ==
    IF c.environ = None THEN c ELSE [c EXCEPT !.environ = Some({})]

\* Command::env_clear: the descriptor afterwards
env_clear_body(c) == [c EXCEPT !.environ = Some({})]

\* Command::env_clear
env_clear ==
    /\ pc = "ready"
    /\ calls < MaxCalls
    /\ calls' = calls + 1
    /\ cmd' = env_clear_body(cmd)
    /\ setSinceClear' = Some({})
    /\ last' = Call("env_clear", <<>>, "returned", {})
    /\ UNCHANGED <<pc, ambient, reads, supplied, passed, ambientOps>>

\* the value an override slot holds, if any
OldSlot(slot) == IF slot = None THEN {} ELSE {slot[1]}

current_dir_sets_filename(dir) ==
    /\ pc = "ready"
    /\ calls < MaxCalls
    /\ calls' = calls + 1
    /\ IF to_cstring(dir) = Panic
       THEN /\ pc' = "panicked"
            /\ UNCHANGED cmd
            /\ last' = Call("current_dir", <<dir>>, "panicked",
                            OldSlot(cmd.work_dir))
       ELSE /\ pc' = pc
            /\ cmd' = [cmd EXCEPT !.work_dir = Some(to_cstring(dir)),
                                  !.filename = to_cstring(dir)]
            /\ last' = Call("current_dir", <<dir>>, "returned",
                            OldSlot(cmd.work_dir))
    /\ UNCHANGED <<ambient, reads, supplied, passed, ambientOps,
                   setSinceClear>>

\* Command::current_dir
current_dir(dir) ==
    /\ pc = "ready"
    /\ calls < MaxCalls
    /\ calls' = calls + 1
    /\ IF to_cstring(dir) = Panic
       THEN /\ pc' = "panicked"
            /\ UNCHANGED cmd
            /\ last' = Call("current_dir", <<dir>>, "panicked",
                            OldSlot(cmd.work_dir))
       ELSE /\ pc' = pc
            /\ cmd' = [cmd EXCEPT !.work_dir = Some(to_cstring(dir))]
            /\ last' = Call("current_dir", <<dir>>, "returned",
                            OldSlot(cmd.work_dir))
    /\ UNCHANGED <<ambient, reads, supplied, passed, ambientOps,
                   setSinceClear>>

stdin_once(cfg) ==
    /\ pc = "ready"
    /\ calls < MaxCalls
    /\ calls' = calls + 1
    /\ cmd' = IF cmd.stdin = None THEN [cmd EXCEPT !.stdin = Some(cfg)]
              ELSE cmd
    /\ last' = Call("stdin", <<cfg>>, "returned", OldSlot(cmd.stdin))
    /\ UNCHANGED <<pc, ambient, reads, supplied, passed, ambientOps,
                   setSinceClear>>

\* Command::stdin
stdin(cfg) ==
    /\ pc = "ready"
    /\ calls < MaxCalls
    /\ calls' = calls + 1
    /\ cmd' = [cmd EXCEPT !.stdin = Some(cfg)]
    /\ last' = Call("stdin", <<cfg>>, "returned", OldSlot(cmd.stdin))
    /\ UNCHANGED <<pc, ambient, reads, supplied, passed, ambientOps,
                   setSinceClear>>

stdout_and_stderr(cfg) ==
    /\ pc = "ready"
    /\ calls < MaxCalls
    /\ calls' = calls + 1
    /\ cmd' = [cmd EXCEPT !.stdout = Some(cfg), !.stderr = Some(cfg)]
    /\ last' = Call("stdout", <<cfg>>, "returned", OldSlot(cmd.stdout))
    /\ UNCHANGED <<pc, ambient, reads, supplied, passed, ambientOps,
                   setSinceClear>>

\* Command::stdout
stdout(cfg) ==
    /\ pc = "ready"
    /\ calls < MaxCalls
    /\ calls' = calls + 1
    /\ cmd' = [cmd EXCEPT !.stdout = Some(cfg)]
    /\ last' = Call("stdout", <<cfg>>, "returned", OldSlot(cmd.stdout))
    /\ UNCHANGED <<pc, ambient, reads, supplied, passed, ambientOps,
                   setSinceClear>>

\* Command::stderr
stderr(cfg) ==
    /\ pc = "ready"
    /\ calls < MaxCalls
    /\ calls' = calls + 1
    /\ cmd' = [cmd EXCEPT !.stderr = Some(cfg)]
    /\ last' = Call("stderr", <<cfg>>, "returned", OldSlot(cmd.stderr))
    /\ UNCHANGED <<pc, ambient, reads, supplied, passed, ambientOps,
                   setSinceClear>>

\* other code of the process sets a variable of the process environment,
\* which env::vars_os() reads
set_var(key, val) ==
    /\ pc # "panicked"
    /\ ambientOps < MaxAmbientOps
    /\ ambient' = HashMapInsert(ambient, key, val)
    /\ ambient' # ambient
    /\ ambientOps' = ambientOps + 1
    /\ UNCHANGED <<pc, cmd, reads, supplied, passed, calls, setSinceClear,
                   last>>

\* other code of the process removes a variable of the process environment
remove_var(key) ==
    /\ pc # "panicked"
    /\ ambientOps < MaxAmbientOps
    /\ ambient' = HashMapRemove(ambient, key)
    /\ ambient' # ambient
    /\ ambientOps' = ambientOps + 1
    /\ UNCHANGED <<pc, cmd, reads, supplied, passed, calls, setSinceClear,
                   last>>

Next ==
    \/ \E p \in Programs : new(p)
    \/ \E a \in OsStrs : arg(a)
    \/ \E s \in Slices : args(s)
    \/ init_env_map
    \/ \E k \in OsStrs, v \in OsStrs : env(k, v)
    \/ \E k \in OsStrs : env_remove(k)
    \/ env_clear
    \/ \E d \in OsStrs : current_dir(d)
    \/ \E c \in StdioCfgs : stdin(c)
    \/ \E c \in StdioCfgs : stdout(c)
    \/ \E c \in StdioCfgs : stderr(c)
    \/ \E k \in AmbientKeys, v \in AmbientVals : set_var(k, v)
    \/ \E k \in AmbientKeys : remove_var(k)

Spec == Init /\ [][Next]_vars

\* ================================================================ claims
\* the environment policy of the descriptor (None: Inherited)
Environ == IF cmd = NoCommand THEN None ELSE cmd.environ

\* a step that is a builder call on the constructed descriptor
CallStep == calls' = calls + 1

\* ------------------------------------------------------------------- C1
\* C1: whenever a descriptor exists, whatever calls were made on it, its
\* argument list is non-empty and its element 0 is the program that was
\* supplied to Command::new.
C1_ArgvZeroIsProgram ==
    cmd # NoCommand =>
        /\ Len(cmd.args) >= 1
        /\ cmd.args[1] # Panic
        /\ to_bytes(cmd.args[1]) = supplied

\* arguments were added and the environment was changed after construction
C1_Witness ==
    /\ cmd # NoCommand
    /\ Len(cmd.args) >= 3
    /\ cmd.environ # None
    /\ to_bytes(cmd.args[1]) = supplied

\* ------------------------------------------------------------------- C2
\* C2: when env(k, v) or env_remove(k) is called on a descriptor whose
\* environment is still Inherited, the mapping afterwards is the process
\* environment of that moment with only key k changed: every other variable
\* is there with its value and nothing else is, and k is bound to v alone
\* (env) or absent (env_remove).
C2_MaterializationPreservesAmbient ==
    [][(CallStep /\ Environ = None /\ last'.op \in {"env", "env_remove"}) =>
        LET k == last'.in[1] IN
        /\ cmd'.environ # None
        /\ \A e \in ambient : e[1] # k => e \in Mapping(cmd')
        /\ \A e \in Mapping(cmd') : e[1] # k => e \in ambient
        /\ last'.op = "env" =>
               ValuesOf(Mapping(cmd'), k) = {last'.in[2]}
        /\ last'.op = "env_remove" => k \notin Keys(Mapping(cmd'))
      ]_vars

\* the first call on the descriptor was env(k, v), the process environment
\* held another variable, and the mapping holds both
C2_Witness ==
    /\ pc = "ready"
    /\ calls = 1
    /\ last.op = "env"
    /\ reads = 1
    /\ \E e \in Mapping(cmd) : e[1] # last.in[1] /\ e \in ambient
    /\ <<last.in[1], last.in[2]>> \in Mapping(cmd)
    /\ <<last.in[1], last.in[2]>> \notin ambient

\* ------------------------------------------------------------------- C3
\* C3: right after env_clear the mapping is empty, whatever the process
\* environment holds and whatever env calls came before; and from env_clear
\* on, the keys of the mapping are exactly the keys set by env and not
\* removed again since, so no variable of the process environment leaks in.
C3_ClearEnvIsolation ==
    /\ (last.op = "env_clear" => cmd.environ = Some({}))
    /\ (setSinceClear # None =>
            /\ cmd.environ # None
            /\ Keys(Mapping(cmd)) = setSinceClear[1])

\* the environment was materialized from a non-empty process environment,
\* then cleared, then a key was set: the mapping holds that key alone
C3_Witness ==
    /\ setSinceClear # None
    /\ setSinceClear[1] # {}
    /\ reads = 1
    /\ last.op = "env"
    /\ \E e \in ambient : e[1] \notin Keys(Mapping(cmd))

\* ------------------------------------------------------------------- C4
\* C4: after env(k, v) the mapping binds k to v and holds exactly one entry
\* for k, also when k was bound before (last write wins); after
\* env_remove(k) the key k is absent; and on a descriptor whose environment
\* is already explicit both calls leave the entries of every other key as
\* they were.
C4_LastWriteWins ==
    [][(CallStep /\ last'.op \in {"env", "env_remove"}) =>
        LET k == last'.in[1] IN
        /\ last'.op = "env" =>
               /\ ValuesOf(Mapping(cmd'), k) = {last'.in[2]}
               /\ Cardinality({e \in Mapping(cmd') : e[1] = k}) = 1
        /\ last'.op = "env_remove" => k \notin Keys(Mapping(cmd'))
        /\ Environ # None =>
               \A e \in Mapping(cmd) \cup Mapping(cmd') :
                   e[1] # k => (e \in Mapping(cmd) <=> e \in Mapping(cmd'))
      ]_vars

\* env(k, v2) was called on a mapping in which an earlier env(k, v) had
\* bound k (no process environment ever held k) to another value, and that
\* holds another key
C4_Witness ==
    /\ last.op = "env"
    /\ last.old # {}
    /\ ambientOps = 0
    /\ last.in[1] \notin Keys(ambient)
    /\ last.in[2] \notin last.old
    /\ ValuesOf(Mapping(cmd), last.in[1]) = {last.in[2]}
    /\ \E e \in Mapping(cmd) : e[1] # last.in[1]

\* ------------------------------------------------------------------- C5
\* C5 as stated: once an environment operation (env, env_remove or
\* env_clear) has been made, the process environment has been read exactly
\* once.
C5_ReadExactlyOnceAtFirstMutation ==
    Environ # None => reads = 1

\* C5, amended: the process environment is read at most once, and it is
\* read by exactly the env, env_remove or init_env_map call that finds the
\* environment still Inherited; env_clear never reads it, nor does any
\* other call, and no call reads it once the environment is explicit.
C5_ReadOnlyByMaterialization ==
    [][/\ reads' <= 1
       /\ reads' \in {reads, reads + 1}
       /\ reads' # reads <=>
              (CallStep /\ Environ = None
                        /\ last'.op \in {"env", "env_remove",
                                         "init_env_map"})
      ]_vars

\* an env call on an already explicit mapping that held its key: the one
\* read was made by an earlier call and was not repeated
C5_Witness ==
    /\ reads = 1
    /\ last.op = "env"
    /\ last.old # {}
    /\ calls >= 2

\* ------------------------------------------------------------------- C6
\* C6: while every call has returned, the argument list after element 0 is
\* the concatenation, in call order, of the arguments passed to arg and of
\* the elements of the slices passed to args, whatever other calls were
\* made in between.
C6_ArgumentOrder ==
    pc = "ready" =>
        /\ Len(cmd.args) = 1 + Len(passed)
        /\ \A i \in 1..Len(passed) : cmd.args[i + 1] = to_cstring(passed[i])

\* three arguments, not all equal, were added and the environment was
\* changed as well
C6_Witness ==
    /\ pc = "ready"
    /\ Len(passed) >= 3
    /\ passed[1] # passed[2]
    /\ Len(cmd.args) = 1 + Len(passed)
    /\ last.op \notin {"arg", "args"}

\* ------------------------------------------------------------------- C7
\* C7: stdin(cfg) leaves the stdout and stderr overrides as they were,
\* stdout(cfg) leaves stdin and stderr, and stderr(cfg) leaves stdin and
\* stdout.
C7_StdioIndependence ==
    [][CallStep =>
        /\ last'.op = "stdin" =>
               cmd'.stdout = cmd.stdout /\ cmd'.stderr = cmd.stderr
        /\ last'.op = "stdout" =>
               cmd'.stdin = cmd.stdin /\ cmd'.stderr = cmd.stderr
        /\ last'.op = "stderr" =>
               cmd'.stdin = cmd.stdin /\ cmd'.stdout = cmd.stdout
      ]_vars

\* stdout was set on a descriptor whose stdin was set to another value and
\* whose stderr was never set
C7_Witness ==
    /\ last.op = "stdout"
    /\ cmd.stdout = Some(last.in[1])
    /\ cmd.stdin # None
    /\ cmd.stdin # cmd.stdout
    /\ cmd.stderr = None

\* ------------------------------------------------------------------- C8
\* C8 as stated: Command::new on a program with an embedded NUL ends by
\* returning a StringConversionError value, and no descriptor exists.
C8_ConstructorReturnsError ==
    (last.op = "new" /\ HasNul(supplied)) =>
        (last.res = "error" /\ cmd = NoCommand)

\* C8, amended: Command::new on a program with an embedded NUL does not
\* return: the conversion panics inside the call, and no descriptor, not
\* even a partly built one, exists afterwards.
C8_ConstructorPanics ==
    (pc # "init" /\ HasNul(supplied)) =>
        /\ pc = "panicked"
        /\ last.op = "new"
        /\ last.res = "panicked"
        /\ cmd = NoCommand

\* Command::new was called with a program holding a NUL
C8_Witness ==
    /\ last.op = "new"
    /\ HasNul(last.in[1])
    /\ pc = "panicked"

\* ------------------------------------------------------------------- C9
\* C9: no key and no value with an embedded NUL is ever stored in the
\* mapping (env fails on it at the call and leaves the descriptor
\* unchanged).  Command::env converts nothing and stores both as given, so
\* this fails on new(a); env(a\0, a).
C9_NoUnrepresentableEntry ==
    Environ # None =>
        \A e \in Mapping(cmd) : ~HasNul(e[1]) /\ ~HasNul(e[2])

\* env returned for a key or a value with an embedded NUL, which the
\* mapping now holds
C9_Witness ==
    /\ last.op = "env"
    /\ last.res = "returned"
    /\ HasNul(last.in[1]) \/ HasNul(last.in[2])
    /\ <<last.in[1], last.in[2]>> \in Mapping(cmd)

\* ------------------------------------------------------------------ C10
\* C10: an env_remove(k) that follows an env_remove(k), and an env_clear
\* that follows an env_clear, leave the descriptor exactly as it was.
C10_RemoveAndClearIdempotent ==
    [][(CallStep /\ last.op = last'.op /\ last.in = last'.in
                 /\ last'.op \in {"env_remove", "env_clear"}) =>
        cmd' = cmd
      ]_vars

\* env_remove(k) was called twice in a row on a descriptor whose first
\* call removed k from a non-empty mapping
C10_Witness ==
    /\ last.op = "env_remove"
    /\ last.rep
    /\ Mapping(cmd) # {}
    /\ last.in[1] \notin Keys(Mapping(cmd))

\* ------------------------------------------------------------------ C11
\* C11: the descriptor Command::new returns has program and argument 0
\* both equal to the converted program, exactly one argument, an Inherited
\* environment, no working directory and no stdin, stdout or stderr
\* override.
C11_InitialState ==
    (last.op = "new" /\ last.res = "returned") =>
        /\ cmd # NoCommand
        /\ cmd.filename = to_cstring(last.in[1])
        /\ to_bytes(cmd.filename) = supplied
        /\ cmd.args = <<cmd.filename>>
        /\ Len(cmd.args) = 1
        /\ cmd.environ = None
        /\ cmd.work_dir = None
        /\ cmd.stdin = None
        /\ cmd.stdout = None
        /\ cmd.stderr = None

\* Command::new has returned a descriptor on which nothing was called yet,
\* in a process whose environment is not empty
C11_Witness ==
    /\ pc = "ready"
    /\ calls = 0
    /\ last.op = "new"
    /\ cmd # NoCommand
    /\ ambient # {}

\* ------------------------------------------------------------------ C12
\* C12: every env, env_remove and env_clear call (and every init_env_map
\* call) leaves the environment an explicit mapping, and an environment
\* that is explicit stays explicit over every later step: nothing returns
\* it to Inherited.
C12_InheritedIsLeftOnce ==
    [][/\ (CallStep /\ last'.op \in {"env", "env_remove", "env_clear",
                                      "init_env_map"}) =>
              cmd'.environ # None
       /\ Environ # None => cmd'.environ # None
      ]_vars

\* a second environment call removed the last key of the mapping, which is
\* explicit and empty, not Inherited
C12_Witness ==
    /\ last.op = "env_remove"
    /\ calls >= 2
    /\ last.old # {}
    /\ cmd.environ = Some({})
    /\ setSinceClear = None

\* ------------------------------------------------------------------ C13
\* C13: in every state in which a descriptor exists its program is the
\* value given to Command::new, and no call changes it.
C13_ProgramFixed ==
    [][/\ cmd' # NoCommand => to_bytes(cmd'.filename) = supplied'
       /\ cmd # NoCommand => cmd'.filename = cmd.filename
      ]_vars

\* arguments, environment and working directory were all changed, the
\* working directory to a string other than the program
C13_Witness ==
    /\ pc = "ready"
    /\ Len(cmd.args) > 1
    /\ cmd.environ # None
    /\ cmd.work_dir # None
    /\ cmd.work_dir # Some(cmd.filename)
    /\ to_bytes(cmd.filename) = supplied

\* ------------------------------------------------------------------ C14
\* the descriptor after arg(s[1]); ...; arg(s[n]), as far as these calls
\* run: the first one whose argument does not convert panics
RECURSIVE ArgsOneByOne(_, _)
ArgsOneByOne(c, s) ==
    IF s = <<>> \/ to_cstring(Head(s)) = Panic
    THEN c
    ELSE ArgsOneByOne(arg_body(c, Head(s)), Tail(s))

\* C14: args(s) leaves the descriptor as arg(s[1]); ...; arg(s[n]) leaves
\* it, and fails when one of these fails; the arguments already there are
\* kept in place, the new ones follow them, and args of the empty slice
\* leaves the descriptor unchanged.
C14_ArgsIsRepeatedArg ==
    [][(CallStep /\ last'.op = "args") =>
        LET s == last'.in[1] IN
        /\ cmd' = ArgsOneByOne(cmd, s)
        /\ last'.res = "panicked" <=>
               \E i \in DOMAIN s : to_cstring(s[i]) = Panic
        /\ Len(cmd'.args) >= Len(cmd.args)
        /\ SubSeq(cmd'.args, 1, Len(cmd.args)) = cmd.args
        /\ last'.res = "returned" =>
               Len(cmd'.args) = Len(cmd.args) + Len(s)
        /\ s = <<>> => cmd' = cmd
      ]_vars

\* args of a two-element slice returned on a descriptor that already held
\* an argument besides the program
C14_Witness ==
    /\ last.op = "args"
    /\ last.res = "returned"
    /\ Len(last.in[1]) = 2
    /\ Len(cmd.args) >= 4
    /\ cmd.args[Len(cmd.args)] = to_cstring(last.in[1][2])
    /\ cmd.args[Len(cmd.args) - 1] = to_cstring(last.in[1][1])

\* ------------------------------------------------------------------ C15
\* C15: arg and args change the argument list alone and read no process
\* environment; env, env_remove and env_clear (and init_env_map) change
\* the environment alone; current_dir changes the working directory alone;
\* stdin, stdout and stderr change stdio alone.  Hence after new(p), args([x, y]),
\* env(k, v) the descriptor has the arguments [p, x, y], the process
\* environment with k bound to v as its environment, and no working
\* directory or stdio override.
C15_GroupsDoNotInterfere ==
    [][CallStep =>
        /\ last'.op \in {"arg", "args"} =>
               /\ cmd' = [cmd EXCEPT !.args = cmd'.args]
               /\ reads' = reads
        /\ last'.op \in {"env", "env_remove", "env_clear",
                         "init_env_map"} =>
               cmd' = [cmd EXCEPT !.environ = cmd'.environ]
        /\ last'.op = "current_dir" =>
               cmd' = [cmd EXCEPT !.work_dir = cmd'.work_dir]
        /\ last'.op \in {"stdin", "stdout", "stderr"} =>
               cmd' = [cmd EXCEPT !.stdin = cmd'.stdin,
                                  !.stdout = cmd'.stdout,
                                  !.stderr = cmd'.stderr]
        /\ (calls' = 2 /\ last.op = "args" /\ last.res = "returned"
                       /\ Len(last.in[1]) = 2 /\ last'.op = "env") =>
               cmd' = [filename |-> to_cstring(supplied),
                       args     |-> <<to_cstring(supplied),
                                      to_cstring(last.in[1][1]),
                                      to_cstring(last.in[1][2])>>,
                       environ  |-> Some({e \in ambient :
                                              e[1] # last'.in[1]}
                                         \cup {<<last'.in[1],
                                                 last'.in[2]>>}),
                       work_dir |-> None,
                       stdin    |-> None,
                       stdout   |-> None,
                       stderr   |-> None]
      ]_vars

\* new(p); args([x, y]); env(k, v) in a process whose environment holds
\* other variables than k
C15_Witness ==
    /\ pc = "ready"
    /\ calls = 2
    /\ last.op = "env"
    /\ Len(passed) = 2
    /\ Len(cmd.args) = 3
    /\ <<last.in[1], last.in[2]>> \in Mapping(cmd)
    /\ \E e \in Mapping(cmd) : e[1] # last.in[1] /\ e \in ambient
    /\ cmd.work_dir = None
    /\ cmd.stdin = None /\ cmd.stdout = None /\ cmd.stderr = None

\* ------------------------------------------------------------------ C16
\* C16: once the environment is an explicit mapping, a change of the
\* process environment leaves the descriptor as it is, and every later
\* call derives the mapping from the mapping before it and from its own
\* inputs alone, never from the process environment.  While the
\* environment is Inherited the descriptor holds no mapping and has read
\* nothing of the process environment, at construction or later, so a
\* change of the process environment leaves it Inherited.
C16_SnapshotIndependence ==
    [][/\ (Environ # None /\ ambient' # ambient) => cmd' = cmd
       /\ (Environ # None /\ CallStep) =>
              cmd'.environ =
                  CASE last'.op = "env" ->
                           Some({e \in Mapping(cmd) : e[1] # last'.in[1]}
                                \cup {<<last'.in[1], last'.in[2]>>})
                    [] last'.op = "env_remove" ->
                           Some({e \in Mapping(cmd) : e[1] # last'.in[1]})
                    [] last'.op = "env_clear" -> Some({})
                    [] OTHER -> cmd.environ
       /\ (pc = "init" /\ cmd' # NoCommand) =>
              (cmd'.environ = None /\ reads' = reads)
       /\ (cmd' # NoCommand /\ cmd'.environ = None) => reads' = 0
       /\ (cmd # NoCommand /\ Environ = None /\ ambient' # ambient) =>
              cmd'.environ = None
      ]_vars

\* env_remove of a key that no mapping holds was called twice, so the
\* mapping is the snapshot the first call took; the process environment
\* has changed since and the mapping has not followed it
C16_Witness ==
    /\ last.op = "env_remove"
    /\ last.rep
    /\ calls = 2
    /\ HasNul(last.in[1])
    /\ reads = 1
    /\ ambientOps >= 1
    /\ Mapping(cmd) # {}
    /\ Mapping(cmd) # ambient

\* ------------------------------------------------------------------ C17
\* the environment the descriptor stands for: its mapping, or the process
\* environment while it is Inherited
Effective == IF Environ = None THEN ambient ELSE Mapping(cmd)

\* C17 as stated: env_remove(k) for a key k that the effective environment
\* does not hold leaves the descriptor unchanged, also while it is
\* Inherited.
C17_RemoveAbsentKeepsDescriptor ==
    [][(CallStep /\ last'.op = "env_remove"
                 /\ last'.in[1] \notin Keys(Effective)) =>
        cmd' = cmd
      ]_vars

\* C17, amended: env_remove(k) for a key k that the effective environment
\* does not hold leaves a descriptor with an explicit mapping unchanged; a
\* descriptor that is still Inherited it switches to an explicit mapping
\* that is the snapshot of the process environment at the call, with no
\* variable added or removed, and changes nothing else.
C17_RemoveAbsentMaterializesOnly ==
    [][(CallStep /\ last'.op = "env_remove"
                 /\ last'.in[1] \notin Keys(Effective)) =>
        /\ last'.res = "returned"
        /\ Environ # None => cmd' = cmd
        /\ Environ = None => cmd' = [cmd EXCEPT !.environ = Some(ambient)]
      ]_vars

\* the first call on the descriptor was env_remove of a key the process
\* environment does not hold: the mapping is the snapshot, unchanged
C17_Witness ==
    /\ last.op = "env_remove"
    /\ calls = 1
    /\ reads = 1
    /\ ambientOps = 0
    /\ ambient # {}
    /\ last.in[1] \notin Keys(ambient)
    /\ cmd.environ = Some(ambient)

\* ------------------------------------------------------------------ C18
\* the orders in which the keys of a set can be removed one by one
Orders(K) ==
    {o \in [1..Cardinality(K) -> K] :
        \A i, j \in 1..Cardinality(K) : i # j => o[i] # o[j]}

\* the descriptor after env_remove(o[1]); ...; env_remove(o[n])
RECURSIVE RemoveEach(_, _, _)
RemoveEach(c, amb, o) ==
    IF o = <<>> THEN c
    ELSE RemoveEach(env_remove_body(c, amb, Head(o)), amb, Tail(o))

\* C18 as stated: on a descriptor that is still Inherited, env_clear()
\* gives the descriptor that env_remove(k) for every key k of the process
\* environment gives.
C18_ClearIsRemoveEach ==
    (pc = "ready" /\ Environ = None) =>
        \A o \in Orders(Keys(ambient)) :
            RemoveEach(cmd, ambient, o) = env_clear_body(cmd)

\* C18, amended: on a descriptor that is still Inherited, in a process
\* whose environment holds at least one variable, env_clear() gives the
\* descriptor that env_remove(k) for every key k of the process
\* environment gives, in whatever order: an explicit empty mapping and
\* nothing else changed.
C18_ClearIsRemoveEachNonEmpty ==
    (pc = "ready" /\ Environ = None /\ ambient # {}) =>
        \A o \in Orders(Keys(ambient)) :
            /\ RemoveEach(cmd, ambient, o) = env_clear_body(cmd)
            /\ env_clear_body(cmd) = [cmd EXCEPT !.environ = Some({})]

\* two env_remove calls, and no env_clear, have emptied the snapshot of a
\* process environment of two variables
C18_Witness ==
    /\ last.op = "env_remove"
    /\ calls = 2
    /\ reads = 1
    /\ setSinceClear = None
    /\ ambientOps = 0
    /\ Cardinality(ambient) = 2
    /\ cmd.environ = Some({})

\* ------------------------------------------------------------------ C19
\* a step on which every override slot is absent after Command::new, takes
\* the value passed when its own setter returns, keeps its value on every
\* other call, and is never reset to absent
SlotsFollowSetters ==
    /\ (pc = "init" /\ cmd' # NoCommand) =>
           /\ cmd'.work_dir = None
           /\ cmd'.stdin = None
           /\ cmd'.stdout = None
           /\ cmd'.stderr = None
    /\ CallStep =>
           /\ cmd'.work_dir =
                  IF last'.op = "current_dir" /\ last'.res = "returned"
                  THEN Some(to_cstring(last'.in[1])) ELSE cmd.work_dir
           /\ cmd'.stdin =
                  IF last'.op = "stdin" THEN Some(last'.in[1]) ELSE cmd.stdin
           /\ cmd'.stdout =
                  IF last'.op = "stdout" THEN Some(last'.in[1])
                  ELSE cmd.stdout
           /\ cmd'.stderr =
                  IF last'.op = "stderr" THEN Some(last'.in[1])
                  ELSE cmd.stderr
    /\ cmd # NoCommand =>
           /\ cmd.work_dir # None => cmd'.work_dir # None
           /\ cmd.stdin # None => cmd'.stdin # None
           /\ cmd.stdout # None => cmd'.stdout # None
           /\ cmd.stderr # None => cmd'.stderr # None

\* C19 as stated: each override slot (working directory, stdin, stdout,
\* stderr) is absent until its setter is called, then holds the value of
\* the most recent call of its setter, is never reset to absent, and no
\* call of a setter, first or repeated, ever fails.
C19_SettersNeverFail ==
    [][/\ SlotsFollowSetters
       /\ (CallStep /\ last'.op \in {"current_dir", "stdin", "stdout",
                                     "stderr"}) =>
              last'.res = "returned"
      ]_vars

\* C19, amended: each override slot is absent until its setter is called,
\* then holds the value of the most recent call of its setter that
\* returned, and is never reset to absent; stdin, stdout and stderr always
\* return, and current_dir, first or repeated, fails exactly when its path
\* has no native-string form, leaving the slot as it was.
C19_SlotsHoldLastValue ==
    [][/\ SlotsFollowSetters
       /\ (CallStep /\ last'.op \in {"stdin", "stdout", "stderr"}) =>
              last'.res = "returned"
       /\ (CallStep /\ last'.op = "current_dir") =>
              /\ last'.res = "returned" <=> ~HasNul(last'.in[1])
              /\ last'.res = "panicked" => cmd' = cmd
      ]_vars

\* stdin was called on a descriptor whose stdin slot held another value,
\* and the slot holds the new one
C19_Witness ==
    /\ last.op = "stdin"
    /\ last.old # {}
    /\ last.in[1] \notin last.old
    /\ cmd.stdin = Some(last.in[1])
====
